---- MODULE Spec2Model ----
(***************************************************************************)
(* Memory-metrics pipeline: counter parsing and pressure classification    *)
(* (collector.py), the SQLite store (metrics_store.py), the read-side      *)
(* queries (db_readers.py) and the sampling loop (collector.main).         *)
(*                                                                         *)
(* Text is modelled as a sequence of one-character strings, so that        *)
(* split / strip / replace / int() / float() are computed on characters.   *)
(* A call that can raise returns [exc |-> "none", val |-> v] or            *)
(* [exc |-> <exception class>, val |-> 0].                                 *)
(***************************************************************************)
EXTENDS Integers, Sequences, FiniteSets, Bags, TLC

Return(v) == [exc |-> "none", val |-> v]
Raise(e) == [exc |-> e, val |-> 0]
Ok(r) == r.exc = "none"

(***************************************************************************)
(* Python str primitives used by the collector                             *)
(***************************************************************************)
Digits == {"0", "1", "2", "3", "4", "5", "6", "7", "8", "9"}

DigitVal(c) ==
    CASE c = "0" -> 0 [] c = "1" -> 1 [] c = "2" -> 2 [] c = "3" -> 3
      [] c = "4" -> 4 [] c = "5" -> 5 [] c = "6" -> 6 [] c = "7" -> 7
      [] c = "8" -> 8 [] c = "9" -> 9

DigitChar(d) ==
    CASE d = 0 -> "0" [] d = 1 -> "1" [] d = 2 -> "2" [] d = 3 -> "3"
      [] d = 4 -> "4" [] d = 5 -> "5" [] d = 6 -> "6" [] d = 7 -> "7"
      [] d = 8 -> "8" [] d = 9 -> "9"

IsSpace(c) == c \in {" ", "\t", "\n"}

\* str.lower() on one character (the letters that occur in counter text)
LowerChar(c) ==
    CASE c = "U" -> "u" [] c = "S" -> "s" [] c = "E" -> "e" [] c = "D" -> "d"
      [] c = "M" -> "m" [] c = "G" -> "g" [] c = "F" -> "f" [] c = "R" -> "r"
      [] c = "T" -> "t" [] c = "O" -> "o" [] c = "A" -> "a" [] c = "L" -> "l"
      [] OTHER -> c

Lower(s) == [i \in 1..Len(s) |-> LowerChar(s[i])]

\* str.replace(a, b) for single characters
Replace(s, a, b) == [i \in 1..Len(s) |-> IF s[i] = a THEN b ELSE s[i]]

Min(S) == CHOOSE x \in S : \A y \in S : x <= y
Max(S) == CHOOSE x \in S : \A y \in S : y <= x

\* the k-th smallest element of a finite set of integers
Nth(S, k) == CHOOSE x \in S : Cardinality({y \in S : y < x}) = k - 1

\* str.split(): split on runs of whitespace, no empty tokens
SplitWs(s) ==
    LET starts == {i \in 1..Len(s) : ~IsSpace(s[i]) /\ (i = 1 \/ IsSpace(s[i - 1]))}
        ends == {i \in 1..Len(s) : ~IsSpace(s[i]) /\ (i = Len(s) \/ IsSpace(s[i + 1]))}
    IN [k \in 1..Cardinality(starts) |-> SubSeq(s, Nth(starts, k), Nth(ends, k))]

\* str.split(sep) for a one-character separator: empty pieces are kept
SplitOn(s, sep) ==
    LET cuts == {i \in 1..Len(s) : s[i] = sep}
        n == Cardinality(cuts)
        from(k) == IF k = 1 THEN 1 ELSE Nth(cuts, k - 1) + 1
        to(k) == IF k = n + 1 THEN Len(s) ELSE Nth(cuts, k) - 1
    IN [k \in 1..(n + 1) |-> SubSeq(s, from(k), to(k))]

\* str.strip()
Strip(s) ==
    LET kept == {i \in 1..Len(s) : ~IsSpace(s[i])}
    IN IF kept = {} THEN <<>> ELSE SubSeq(s, Min(kept), Max(kept))

\* str.rstrip(c) for a one-character set
RStripChar(s, c) ==
    LET kept == {i \in 1..Len(s) : s[i] # c}
    IN IF kept = {} THEN <<>> ELSE SubSeq(s, 1, Max(kept))

\* sub in s
Contains(s, sub) ==
    \E i \in 1..(Len(s) - Len(sub) + 1) : SubSeq(s, i, i + Len(sub) - 1) = sub

AllDigits(s) == \A i \in 1..Len(s) : s[i] \in Digits

RECURSIVE DigitsVal(_)
DigitsVal(s) ==
    IF s = <<>> THEN 0
    ELSE 10 * DigitsVal(SubSeq(s, 1, Len(s) - 1)) + DigitVal(s[Len(s)])

RECURSIVE Pow10(_)
Pow10(n) == IF n = 0 THEN 1 ELSE 10 * Pow10(n - 1)

Unsigned(s) == IF s # <<>> /\ s[1] \in {"+", "-"} THEN Tail(s) ELSE s
Sign(s) == IF s # <<>> /\ s[1] = "-" THEN -1 ELSE 1

\* int(str): optional sign and decimal digits, else ValueError.
PyInt(str) ==
    LET s == Strip(str)
        body == Unsigned(s)
    IN IF body # <<>> /\ AllDigits(body)
       THEN Return(Sign(s) * DigitsVal(body))
       ELSE Raise("ValueError")

\* float(str) for decimal literals: the value is num / den with den a power
\* of ten; anything else is a ValueError.  The magnitudes of the counter
\* text carry at most two decimals, for which rounding to a double never
\* crosses an integer, before or after the exact scaling by 1024.
PyFloat(str) ==
    LET s == Strip(str)
        body == Unsigned(s)
        parts == SplitOn(body, ".")
    IN IF Len(parts) = 1 /\ body # <<>> /\ AllDigits(body)
       THEN Return([num |-> Sign(s) * DigitsVal(body), den |-> 1])
       ELSE IF /\ Len(parts) = 2
               /\ AllDigits(parts[1]) /\ AllDigits(parts[2])
               /\ parts[1] \o parts[2] # <<>>
            THEN Return([num |-> Sign(s) * (DigitsVal(parts[1]) * Pow10(Len(parts[2]))
                                             + DigitsVal(parts[2])),
                         den |-> Pow10(Len(parts[2]))])
            ELSE Raise("ValueError")

\* int(x) of a float num/den: truncation toward zero
PyTrunc(num, den) == IF num >= 0 THEN num \div den ELSE -((-num) \div den)

\* a sort that puts an entry before the entries of equal key already placed
RECURSIVE InsertDescBeforeEqual(_, _, _)
InsertDescBeforeEqual(sorted, entry, col) ==
    IF sorted = <<>> THEN <<entry>>
    ELSE IF sorted[Len(sorted)][col] > entry[col] THEN Append(sorted, entry)
    ELSE Append(InsertDescBeforeEqual(SubSeq(sorted, 1, Len(sorted) - 1), entry, col),
                sorted[Len(sorted)])

\* A stable sort by column col, greatest first: ORDER BY max_rss_mb DESC,
\* and list.sort(key=..., reverse=True), which keeps equal keys in order.
RECURSIVE InsertDesc(_, _, _)
InsertDesc(sorted, entry, col) ==
    IF sorted = <<>> THEN <<entry>>
    ELSE IF sorted[Len(sorted)][col] >= entry[col] THEN Append(sorted, entry)
    ELSE Append(InsertDesc(SubSeq(sorted, 1, Len(sorted) - 1), entry, col),
                sorted[Len(sorted)])

RECURSIVE OrderDesc(_, _)
OrderDesc(entries, col) ==
    IF entries = <<>> THEN <<>>
    ELSE InsertDesc(OrderDesc(SubSeq(entries, 1, Len(entries) - 1), col),
                    entries[Len(entries)], col)

(***************************************************************************)
(* collector.py: probes and counter parsing                                *)
(***************************************************************************)
\* The outcome of one external command: status "ok" with its stdout, or
\* "nonzero" (non-zero exit) or "missing" (command not found).
ProbeOk(text) == [status |-> "ok", stdout |-> text]
ProbeFail(how) == [status |-> how, stdout |-> <<>>]

\* subprocess.run(..., check=True) raises on a non-zero exit and on a missing
\* command; otherwise the stripped stdout is returned.
run_command(outcome) ==
    IF outcome.status = "ok" THEN Return(Strip(outcome.stdout))
    ELSE IF outcome.status = "missing" THEN Raise("FileNotFoundError")
    ELSE Raise("CalledProcessError")

TxtPageSizeOf == <<"p", "a", "g", "e", " ", "s", "i", "z", "e", " ", "o", "f">>
TxtOf == <<"o", "f">>
TxtUsed == <<"u", "s", "e", "d">>

PAGE_SIZE_FALLBACK == 4096

\* for line in lines: if "page size of" in line: the token after the first
\* "of" token of that line goes through int(), which may raise.
RECURSIVE PageSizeInLines(_)
PageSizeInLines(lines) ==
    IF lines = <<>> THEN Return(PAGE_SIZE_FALLBACK)
    ELSE LET line == Head(lines)
             parts == SplitWs(line)
             hits == {i \in 1..(Len(parts) - 1) : parts[i] = TxtOf}
         IN IF Contains(line, TxtPageSizeOf) /\ hits # {}
            THEN PyInt(parts[Min(hits) + 1])
            ELSE PageSizeInLines(Tail(lines))

get_page_size(vm_stat) ==
    LET out == run_command(vm_stat)
    IN IF ~Ok(out) THEN out ELSE PageSizeInLines(SplitOn(out.val, "\n"))

\* One "label: value." line gives <<key, value>>; the other lines are dropped.
RECURSIVE PagesInLines(_)
PagesInLines(lines) ==
    IF lines = <<>> THEN <<>>
    ELSE LET parts == SplitOn(Head(lines), ":")
             value == IF Len(parts) = 2
                      THEN PyInt(RStripChar(Strip(parts[2]), "."))
                      ELSE Raise("ValueError")
         IN (IF Len(parts) = 2 /\ Ok(value)
             THEN <<[key |-> Strip(parts[1]), value |-> value.val]>>
             ELSE <<>>) \o PagesInLines(Tail(lines))

parse_vm_stat(vm_stat) ==
    LET out == run_command(vm_stat)
    IN IF ~Ok(out) THEN out ELSE Return(PagesInLines(SplitOn(out.val, "\n")))

\* pages.get(key, 0): a later line with the same label overwrites an earlier
PagesGet(pages, key) ==
    LET hits == {i \in 1..Len(pages) : pages[i].key = key}
    IN IF hits = {} THEN 0 ELSE pages[Max(hits)].value

GIB_IN_MB == 1024

\* The token after "used" with its unit applied, as it would read with the
\* gigabyte factor forgotten.
swap_token_mb_unscaled(val) ==
    LET last == val[Len(val)]
        f == PyFloat(IF last \in {"M", "m", "G", "g"}
                     THEN SubSeq(val, 1, Len(val) - 1) ELSE val)
    IN IF Ok(f) THEN Return(PyTrunc(f.val.num, f.val.den)) ELSE f

\* The token after "used": "256.00M", "1.50G", or a raw number of MB.
swap_token_mb(val) ==
    LET last == val[Len(val)]
        head == SubSeq(val, 1, Len(val) - 1)
    IN IF last \in {"M", "m"}
       THEN LET f == PyFloat(head)
            IN IF Ok(f) THEN Return(PyTrunc(f.val.num, f.val.den)) ELSE f
       ELSE IF last \in {"G", "g"}
       THEN LET f == PyFloat(head)
            IN IF Ok(f) THEN Return(PyTrunc(f.val.num * GIB_IN_MB, f.val.den)) ELSE f
       ELSE LET f == PyFloat(val)
            IN IF Ok(f) THEN Return(PyTrunc(f.val.num, f.val.den)) ELSE f

parse_swap_used_mb(swap_output) ==
    LET tokens == SplitWs(Replace(swap_output, "=", " "))
        hits == {i \in 1..(Len(tokens) - 1) : Lower(tokens[i]) = TxtUsed}
    IN IF hits = {} THEN Return(0)
       ELSE swap_token_mb(Strip(tokens[Min(hits) + 1]))

MIB == 1048576

pages_to_mb(pages, page_size) == (pages * page_size) \div MIB

\* The classification as it would read on available (free + inactive) memory.
memory_pressure_on_available(free_mb, inactive_mb, mem_total_mb, swap_used_mb) ==
    IF 20 * (free_mb + inactive_mb) < mem_total_mb \/ swap_used_mb > 256 THEN "high"
    ELSE IF 10 * (free_mb + inactive_mb) < mem_total_mb \/ swap_used_mb > 0
         THEN "medium"
    ELSE "low"

\* free_mb < 0.05 * mem_total_mb in doubles is 20 * free_mb < mem_total_mb on
\* the integers: 0.05 * t and 0.10 * t are the exact quotient whenever it is
\* an integer, and at least 1/20 away from every integer otherwise.
memory_pressure(free_mb, inactive_mb, mem_total_mb, swap_used_mb) ==
    IF 20 * free_mb < mem_total_mb \/ swap_used_mb > 256 THEN "high"
    ELSE IF 10 * free_mb < mem_total_mb \/ swap_used_mb > 0 THEN "medium"
    ELSE "low"

TxtPagesFree == <<"P", "a", "g", "e", "s", " ", "f", "r", "e", "e">>
TxtPagesActive == <<"P", "a", "g", "e", "s", " ", "a", "c", "t", "i", "v", "e">>
TxtPagesInactive ==
    <<"P", "a", "g", "e", "s", " ", "i", "n", "a", "c", "t", "i", "v", "e">>
TxtPagesWired ==
    <<"P", "a", "g", "e", "s", " ", "w", "i", "r", "e", "d", " ", "d", "o", "w", "n">>
TxtPagesCompressor ==
    <<"P", "a", "g", "e", "s", " ", "o", "c", "c", "u", "p", "i", "e", "d", " ",
      "b", "y", " ", "c", "o", "m", "p", "r", "e", "s", "s", "o", "r">>

\* The snapshot built once every probe and parse has succeeded.
SystemSnapshot(mem_total_bytes, page_size, pages, swap_used_mb, clock) ==
    LET mem_total_mb == mem_total_bytes \div MIB
        free_mb == pages_to_mb(PagesGet(pages, TxtPagesFree), page_size)
        inactive_mb == pages_to_mb(PagesGet(pages, TxtPagesInactive), page_size)
        active_mb == pages_to_mb(PagesGet(pages, TxtPagesActive), page_size)
        wired_mb == pages_to_mb(PagesGet(pages, TxtPagesWired), page_size)
        compressed_mb == pages_to_mb(PagesGet(pages, TxtPagesCompressor), page_size)
    IN [timestamp |-> clock,
        mem_total_mb |-> mem_total_mb,
        mem_used_mb |-> active_mb + wired_mb,
        mem_free_mb |-> free_mb,
        mem_compressed_mb |-> compressed_mb,
        swap_used_mb |-> swap_used_mb,
        memory_pressure |->
            memory_pressure(free_mb, inactive_mb, mem_total_mb, swap_used_mb)]

\* get_system_metrics on the outcomes of its four commands (vm_stat runs
\* twice: once for the page size, once for the counters).  The first failing
\* step raises and nothing after it runs.
get_system_metrics(memsize, vm_stat_1, vm_stat_2, swapusage, clock) ==
    LET m_out == run_command(memsize)
        m_int == IF Ok(m_out) THEN PyInt(m_out.val) ELSE m_out
        page_size == get_page_size(vm_stat_1)
        pages == parse_vm_stat(vm_stat_2)
        s_out == run_command(swapusage)
        swap == IF Ok(s_out) THEN parse_swap_used_mb(s_out.val) ELSE s_out
    IN IF ~Ok(m_int) THEN m_int
       ELSE IF ~Ok(page_size) THEN page_size
       ELSE IF ~Ok(pages) THEN pages
       ELSE IF ~Ok(swap) THEN swap
       ELSE Return(SystemSnapshot(m_int.val, page_size.val, pages.val, swap.val, clock))

\* Optional values (None or a value) are sequences of length 0 or 1.
None == <<>>
Some(v) == <<v>>

\* "is not None" in place of Python truth
IsNotNone(opt, empty) == opt # None

\* Python truth of an optional value: None is false, and so is the empty
\* value of its type ("" for a string, 0 for a number).
Truthy(opt, empty) == opt # None /\ opt[1] # empty

\* get_frontmost_app_name on the outcome of osascript: its stripped output on
\* exit code 0; None on any other exit code, a timeout or a missing command.
get_frontmost_app_name(outcome) ==
    IF outcome.status = "ok" THEN Some(outcome.stdout) ELSE None

\* how many records a cycle keeps
TOP_N_PROCESSES == 2

\* One enumerated process: status "ok", or the exception its inspection
\* raises; name and cpu_percent optional; memory_info optional, with or
\* without a shared figure.
ProcessRecord(info, frontmost_app, clock) ==
    LET mem == info.memory_info[1]
    IN [timestamp |-> clock,
        pid |-> info.pid,
        process_name |-> IF Truthy(info.name, "") THEN info.name[1] ELSE "unknown",
        rss_mb |-> mem.rss \div MIB,
        vms_mb |-> mem.vms \div MIB,
        shared_mb |-> IF "shared" \in DOMAIN mem THEN mem.shared \div MIB ELSE 0,
        cpu_percent |-> IF Truthy(info.cpu_percent, 0) THEN info.cpu_percent[1] ELSE 0,
        is_foreground |->
            IF Truthy(frontmost_app, "") /\ info.name = frontmost_app THEN 1 ELSE 0]

Survives(info) == info.status = "ok" /\ info.memory_info # None

get_process_metrics(procs, frontmost_app, clock) ==
    LET alive == SelectSeq(procs, Survives)
        processes == [i \in 1..Len(alive) |-> ProcessRecord(alive[i], frontmost_app, clock)]
        ranked == OrderDesc(processes, "rss_mb")
    IN SubSeq(ranked, 1, IF Len(ranked) < TOP_N_PROCESSES THEN Len(ranked)
                         ELSE TOP_N_PROCESSES)

(***************************************************************************)
(* metrics_store.py: the two append-only tables                            *)
(***************************************************************************)
SystemColumns ==
    {"timestamp", "mem_total_mb", "mem_used_mb", "mem_free_mb",
     "mem_compressed_mb", "swap_used_mb", "memory_pressure"}

ProcessColumns ==
    {"timestamp", "pid", "process_name", "rss_mb", "vms_mb", "shared_mb",
     "cpu_percent", "is_foreground"}

Project(row, cols) == [k \in cols |-> row[k]]

\* A connection: the committed rows of the table and the rows written by the
\* open (implicit) transaction.
Connect(table) == [rows |-> table, pending |-> <<>>]

\* INSERT of one parameter tuple; id INTEGER PRIMARY KEY takes the next rowid.
Execute(conn, cols, tuple) ==
    [conn EXCEPT !.pending =
        Append(@, [k \in cols \cup {"id"} |->
                      IF k = "id" THEN Len(conn.rows) + Len(conn.pending) + 1
                      ELSE tuple[k]])]

Commit(conn) == [rows |-> conn.rows \o conn.pending, pending |-> <<>>]

\* A close that keeps what the open transaction wrote (autocommit).
CloseKeepingWrites(conn) == conn.rows \o conn.pending

\* conn.close(): what the open transaction wrote and did not commit is
\* rolled back.
Close(conn) == conn.rows

\* The outcome of a store call: the exception (or "none") and the table after.
Stored(e, table) == [exc |-> e, table |-> table]

\* write_fails: "no", "execute" (the INSERT fails) or "commit".
insert_system_snapshot(table, snapshot, write_fails) ==
    LET conn == Connect(table)
    IN IF ~(SystemColumns \subseteq DOMAIN snapshot)
       THEN Stored("KeyError", Close(conn))
       ELSE IF write_fails = "execute"
       THEN Stored("sqlite3.Error", Close(conn))
       ELSE LET written == Execute(conn, SystemColumns, snapshot)
            IN IF write_fails = "commit"
               THEN Stored("sqlite3.Error", Close(written))
               ELSE Stored("none", Close(Commit(written)))

\* cursor.executemany: the tuples are written one by one inside one
\* transaction; the write of tuple number fail_at fails (0: none does).
RECURSIVE ExecuteMany(_, _, _, _)
ExecuteMany(conn, tuples, i, fail_at) ==
    IF i > Len(tuples) \/ i = fail_at THEN conn
    ELSE ExecuteMany(Execute(conn, ProcessColumns, tuples[i]), tuples, i + 1, fail_at)

\* fail_at: 0 (no failure), 1..Len(snapshots) (that row's write fails) or
\* Len(snapshots) + 1 (the commit fails).  The list of tuples is built before
\* executemany runs, so a missing key raises before anything is written.
insert_process_snapshots(table, snapshots, fail_at) ==
    LET conn == Connect(table)
    IN IF \E i \in 1..Len(snapshots) : ~(ProcessColumns \subseteq DOMAIN snapshots[i])
       THEN Stored("KeyError", Close(conn))
       ELSE LET written == ExecuteMany(conn, snapshots, 1, fail_at)
            IN IF fail_at # 0
               THEN Stored("sqlite3.Error", Close(written))
               ELSE Stored("none", Close(Commit(written)))

(***************************************************************************)
(* db_readers.py: the queries                                              *)
(***************************************************************************)
NoData == [no_data |-> TRUE]

SECONDS_PER_MINUTE == 60

\* The window test as it would read with a strict comparison.
InWindowStrict(row, window_minutes, clock) ==
    row.timestamp > clock - window_minutes * SECONDS_PER_MINUTE

\* WHERE timestamp >= unixepoch('now') - (? * 60)
InWindow(row, window_minutes, clock) ==
    row.timestamp >= clock - window_minutes * SECONDS_PER_MINUTE

\* The latest row as it would read by insertion order: the last row stored.
fetch_last_inserted(table, read_fails) ==
    IF read_fails THEN {Raise("RuntimeError")}
    ELSE IF table = <<>> THEN {Return(NoData)}
    ELSE {Return(Project(table[Len(table)], SystemColumns))}

\* ORDER BY timestamp DESC LIMIT 1: a row of greatest timestamp; SQL leaves
\* open which one when several rows share it.  The set of possible outcomes.
fetch_latest_snapshot(table, read_fails) ==
    IF read_fails THEN {Raise("RuntimeError")}
    ELSE IF table = <<>> THEN {Return(NoData)}
    ELSE {Return(Project(table[i], SystemColumns)) :
             i \in {j \in 1..Len(table) :
                      \A k \in 1..Len(table) : table[k].timestamp <= table[j].timestamp}}

\* ORDER BY timestamp ASC as a stable insertion sort
RECURSIVE InsertAsc(_, _)
InsertAsc(sorted, row) ==
    IF sorted = <<>> THEN <<row>>
    ELSE IF sorted[Len(sorted)].timestamp <= row.timestamp THEN Append(sorted, row)
    ELSE Append(InsertAsc(SubSeq(sorted, 1, Len(sorted) - 1), row), sorted[Len(sorted)])

RECURSIVE OrderByTimestampAsc(_)
OrderByTimestampAsc(rows) ==
    IF rows = <<>> THEN <<>>
    ELSE InsertAsc(OrderByTimestampAsc(SubSeq(rows, 1, Len(rows) - 1)), rows[Len(rows)])

SnapshotsColumns ==
    {"timestamp", "mem_used_mb", "mem_free_mb", "mem_compressed_mb", "swap_used_mb"}

SelectInWindow(table, window_minutes, clock) ==
    SelectSeq(table, LAMBDA row : InWindow(row, window_minutes, clock))

fetch_system_snapshots(table, window_minutes, clock, read_fails) ==
    IF read_fails THEN Raise("RuntimeError")
    ELSE LET hits == SelectInWindow(table, window_minutes, clock)
         IN Return(OrderByTimestampAsc(
                [i \in 1..Len(hits) |-> Project(hits[i], SnapshotsColumns)]))

\* The grouping as it would read by name alone.
GroupKeyByName(row) == <<row.process_name, 0>>

\* GROUP BY process_name, pid
GroupKey(row) == <<row.process_name, row.pid>>

\* the distinct group keys, in order of first appearance
RECURSIVE GroupKeys(_)
GroupKeys(rows) ==
    IF rows = <<>> THEN <<>>
    ELSE LET before == GroupKeys(SubSeq(rows, 1, Len(rows) - 1))
             key == GroupKey(rows[Len(rows)])
         IN IF \E i \in 1..Len(before) : before[i] = key THEN before
            ELSE Append(before, key)

RECURSIVE SumOf(_, _)
SumOf(rows, col) ==
    IF rows = <<>> THEN 0 ELSE rows[1][col] + SumOf(Tail(rows), col)

\* AVG() is the quotient num / den, kept exact
Aggregate(rows, key) ==
    LET group == SelectSeq(rows, LAMBDA row : GroupKey(row) = key)
    IN [process_name |-> key[1],
        pid |-> key[2],
        max_rss_mb |-> Max({group[i].rss_mb : i \in 1..Len(group)}),
        avg_rss_mb |-> [num |-> SumOf(group, "rss_mb"), den |-> Len(group)],
        times_seen |-> Len(group),
        foreground_ratio |-> [num |-> SumOf(group, "is_foreground"), den |-> Len(group)]]

\* LIMIT n (a negative n is no limit)
Limit(rows, n) == IF n < 0 \/ n >= Len(rows) THEN rows ELSE SubSeq(rows, 1, n)

fetch_top_processes(table, window_minutes, limit, clock, read_fails) ==
    IF read_fails THEN Raise("RuntimeError")
    ELSE LET hits == SelectInWindow(table, window_minutes, clock)
             keys == GroupKeys(hits)
         IN Return(Limit(OrderDesc([i \in 1..Len(keys) |-> Aggregate(hits, keys[i])],
                                 "max_rss_mb"), limit))

(***************************************************************************)
(* State                                                                   *)
(***************************************************************************)
VARIABLES
    now,                \* the wall clock, epoch seconds
    system_table,       \* committed rows of system_snapshot
    process_table,      \* committed rows of process_snapshot
    call,               \* the function under call and its arguments
    ret,                \* what the call returned or raised
    pc,                 \* collector.main: where the sampling loop stands
    system_snapshot,    \* main's local system_snapshot
    frontmost_app,      \* main's local frontmost_app
    process_snapshots,  \* main's local process_snapshots
    cycle,              \* what the current cycle of the loop has done so far
    signal,             \* where the loop stood when a stop signal ended it
    db,                 \* the database file: its schema, its lock, open connections
    reader              \* a consumer of the database: the run of a dashboard or advisor

vars ==
    <<now, system_table, process_table, call, ret, pc, system_snapshot,
      frontmost_app, process_snapshots, cycle, signal, db, reader>>

Pending == [exc |-> "pending", val |-> 0]
NoCall == [fn |-> "none"]
\* Nothing has happened yet in the current cycle: no exception caught
\* (raised, at), the counter text of its probes not yet read (text,
\* commands_ok), no row written, no process enumeration run.
NoCycle ==
    [raised |-> "none", at |-> "none", text |-> "none", commands_ok |-> TRUE,
     sys_rows |-> 0, proc_rows |-> 0, enumerated |-> FALSE]

\* the sampling loop is not running
LoopOff ==
    /\ pc = "off"
    /\ system_snapshot = NoData
    /\ frontmost_app = None
    /\ process_snapshots = <<>>
    /\ cycle = NoCycle
    /\ signal = "none"

LoopVars == <<pc, system_snapshot, frontmost_app, process_snapshots, cycle, signal>>

\* The tables and columns init_db creates.
FullSchema ==
    [system_snapshot |-> SystemColumns \cup {"id"},
     process_snapshot |-> ProcessColumns \cup {"id"}]

\* The database after init_db, with no transaction in flight and no
\* connection open; no consumer is running.
NoDb == [schema |-> FullSchema, locked |-> FALSE, open |-> 0]
NoReader == [app |-> "none"]

ReadersOff ==
    /\ db = NoDb
    /\ reader = NoReader

(***************************************************************************)
(* Counter text fed to the parsers                                         *)
(***************************************************************************)
TxtVmStatHeader ==
    <<"M", "a", "c", "h", " ", "V", "i", "r", "t", "u", "a", "l", " ", "M", "e", "m",
      "o", "r", "y", " ", "S", "t", "a", "t", "i", "s", "t", "i", "c", "s", ":", " ",
      "(", "p", "a", "g", "e", " ", "s", "i", "z", "e", " ", "o", "f", " ">>

TxtVmStatHeaderEnd == <<" ", "b", "y", "t", "e", "s", ")">>

TxtVmStatNoHeader ==
    <<"M", "a", "c", "h", " ", "V", "i", "r", "t", "u", "a", "l", " ", "M", "e", "m",
      "o", "r", "y", " ", "S", "t", "a", "t", "i", "s", "t", "i", "c", "s", ":">>

TxtColonPad == <<":", " ", " ", " ", " ", " ", " ">>

TxtSwapTotal ==
    <<"t", "o", "t", "a", "l", " ", "=", " ", "1", "0", "2", "4", ".", "0", "0", "M",
      " ", " ">>

TxtSwapFree ==
    <<" ", " ", "f", "r", "e", "e", " ", "=", " ", "7", "6", "8", ".", "0", "0", "M",
      " ", " ", "(", "e", "n", "c", "r", "y", "p", "t", "e", "d", ")">>

\* str(n) for n >= 0
RECURSIVE NatText(_)
NatText(n) ==
    IF n < 10 THEN <<DigitChar(n)>> ELSE Append(NatText(n \div 10), DigitChar(n % 10))

\* the N of "page size of N bytes": two page sizes, and three that int() rejects
PageSizeTokens ==
    {<<"1", "6", "3", "8", "4">>, <<"8", "1", "9", "2">>, <<"1", "6", "K">>,
     <<"4", "0", "9", "6", ".", "0">>, <<"b", "y", "t", "e", "s", ")">>}

\* The first line of vm_stat: with the page size, without it, or with
\* "page size of" as its last words.
VmStatHeaders ==
    {TxtVmStatHeader \o n \o TxtVmStatHeaderEnd : n \in PageSizeTokens}
        \cup {TxtVmStatNoHeader, TxtVmStatHeader}

CounterLine(label, n) == <<"\n">> \o label \o TxtColonPad \o NatText(n) \o <<".">>

VmStatText(header, free, active, inactive, wired, compressed) ==
    header \o CounterLine(TxtPagesFree, free) \o CounterLine(TxtPagesActive, active)
        \o CounterLine(TxtPagesInactive, inactive)
        \o CounterLine(TxtPagesWired, wired)
        \o CounterLine(TxtPagesCompressor, compressed) \o <<"\n">>

\* the key of the swap-usage pair under test: "used" in three spellings, or
\* another key
SwapKeys ==
    {<<"u", "s", "e", "d">>, <<"U", "S", "E", "D">>, <<"U", "s", "e", "d">>,
     <<"f", "r", "e", "e">>}

SwapSeparators == {<<" ", "=", " ">>, <<"=">>, <<" ">>}

\* magnitudes: decimals with at most two places, and four float() rejects
SwapMagnitudes ==
    {<<"0", ".", "0", "0">>, <<"0", ".", "5", "0">>, <<"1", ".", "0", "0">>,
     <<"2", "5", "6", ".", "0", "0">>, <<"2", "5", "6", ".", "9", "9">>,
     <<"2", "5", "7">>, <<"1", ".", "5", "0">>, <<"0", ".", "2", "5">>,
     <<"0", ".", "2", "6">>, <<".", "5">>, <<"3", ".">>, <<"-", "1", ".", "5">>,
     <<>>, <<"a", "b", "c">>, <<"1", ".", "2", ".", "3">>, <<"-">>}

SwapUnits == {<<"M">>, <<"m">>, <<"G">>, <<"g">>, <<>>, <<"K">>}

SwapTexts ==
    {pre \o key \o sep \o mag \o unit \o post :
        pre \in {<<>>, TxtSwapTotal}, key \in SwapKeys, sep \in SwapSeparators,
        mag \in SwapMagnitudes, unit \in SwapUnits, post \in {<<>>, TxtSwapFree}}

\* Complete swap-usage examples of the sysctl output.
TxtSwapExampleG ==
    <<"t", "o", "t", "a", "l", " ", "=", " ", "2", ".", "0", "0", "G", " ", "u", "s",
      "e", "d", " ", "=", " ", "1", ".", "5", "0", "G", " ", "f", "r", "e", "e", " ",
      "=", " ", "0", ".", "5", "0", "G">>

TxtSwapExampleNoUsed ==
    <<"t", "o", "t", "a", "l", " ", "=", " ", "1", "0", "0", "M">>

(***************************************************************************)
(* ParseSpec: the parsers and get_system_metrics called on counter text    *)
(***************************************************************************)
TxtSwapSecondUsed ==
    <<" ", " ", "u", "s", "e", "d", " ", "=", " ", "9", "9", "9", ".", "0", "0", "M">>

UsedSpellings == {<<"u", "s", "e", "d">>, <<"U", "S", "E", "D">>, <<"U", "s", "e", "d">>}

\* A call of parse_swap_used_mb keeps, beside its text, the magnitude and the
\* unit that follow the first "used" of the text it was built from.
SwapCall(pre, key, sep, mag, unit, post) ==
    [fn |-> "parse_swap_used_mb",
     swap_output |-> pre \o key \o sep \o mag \o unit \o post,
     has_used |-> key \in UsedSpellings \/ post = TxtSwapSecondUsed,
     used_mag |-> IF key \in UsedSpellings THEN mag ELSE <<"9", "9", "9", ".", "0", "0">>,
     used_unit |-> IF key \in UsedSpellings THEN unit ELSE <<"M">>]

SwapCalls ==
    {SwapCall(pre, key, sep, mag, unit, post) :
        pre \in {<<>>, TxtSwapTotal}, key \in SwapKeys, sep \in SwapSeparators,
        mag \in SwapMagnitudes, unit \in SwapUnits,
        post \in {<<>>, TxtSwapFree, TxtSwapSecondUsed}}
    \cup
    {[fn |-> "parse_swap_used_mb", swap_output |-> TxtSwapExampleG, has_used |-> TRUE,
      used_mag |-> <<"1", ".", "5", "0">>, used_unit |-> <<"G">>],
     [fn |-> "parse_swap_used_mb", swap_output |-> TxtSwapExampleNoUsed,
      has_used |-> FALSE, used_mag |-> <<>>, used_unit |-> <<>>]}

ProbeFailures == {ProbeFail("nonzero"), ProbeFail("missing")}

PageSizeCalls ==
    {[fn |-> "get_page_size", vm_stat |-> v] :
        v \in {ProbeOk(VmStatText(h, 320, 32, 640, 32, 64)) : h \in VmStatHeaders}
                \cup ProbeFailures}

\* hw.memsize: 100 MiB, 99 MiB, or the command fails
MemsizeProbes == {ProbeOk(NatText(100 * MIB)), ProbeOk(NatText(99 * MIB))} \cup ProbeFailures

MetricsHeaders ==
    {TxtVmStatHeader \o <<"1", "6", "3", "8", "4">> \o TxtVmStatHeaderEnd,
     TxtVmStatNoHeader,
     TxtVmStatHeader \o <<"1", "6", "K">> \o TxtVmStatHeaderEnd}

\* page counts: at 16384 bytes a page, 64 pages are one MB
FreePages == {319, 320, 639, 640, 1280}
ActivePages == {0, 32, 96}
WiredPages == {0, 32}
InactivePages == {0, 640}

TxtUsedEq == <<"u", "s", "e", "d", " ", "=", " ">>

MetricsSwapProbes ==
    {ProbeOk(TxtSwapTotal \o TxtUsedEq \o mag \o <<"M">> \o TxtSwapFree) :
        mag \in {<<"0", ".", "0", "0">>, <<"0", ".", "5", "0">>, <<"1", ".", "0", "0">>,
                 <<"2", "5", "6", ".", "0", "0">>, <<"2", "5", "6", ".", "9", "9">>,
                 <<"2", "5", "7">>, <<"a", "b", "c">>}}
    \cup {ProbeOk(TxtUsedEq \o <<"0", ".", "2", "6", "G">>), ProbeOk(TxtSwapExampleNoUsed),
          ProbeFail("nonzero")}

MetricsCalls ==
    {[fn |-> "get_system_metrics", memsize |-> m,
      vm_stat |-> ProbeOk(VmStatText(h, f, a, i, w, 64)), swapusage |-> sw,
      free |-> f, active |-> a, inactive |-> i, wired |-> w] :
        m \in MemsizeProbes, h \in MetricsHeaders, f \in FreePages, a \in ActivePages,
        i \in InactivePages, w \in WiredPages, sw \in MetricsSwapProbes}

ParseTimes == {60, 120}

ParseInit ==
    /\ now \in ParseTimes
    /\ call \in SwapCalls \cup PageSizeCalls \cup MetricsCalls
    /\ ret = Pending
    /\ system_table = <<>>
    /\ process_table = <<>>
    /\ LoopOff
    /\ ReadersOff

CallParseSwap ==
    /\ call.fn = "parse_swap_used_mb" /\ ret.exc = "pending"
    /\ ret' = parse_swap_used_mb(call.swap_output)
    /\ UNCHANGED <<db, reader, now, call, system_table, process_table, LoopVars>>

CallGetPageSize ==
    /\ call.fn = "get_page_size" /\ ret.exc = "pending"
    /\ ret' = get_page_size(call.vm_stat)
    /\ UNCHANGED <<db, reader, now, call, system_table, process_table, LoopVars>>

CallGetSystemMetrics ==
    /\ call.fn = "get_system_metrics" /\ ret.exc = "pending"
    /\ ret' = get_system_metrics(call.memsize, call.vm_stat, call.vm_stat,
                                 call.swapusage, now)
    /\ UNCHANGED <<db, reader, now, call, system_table, process_table, LoopVars>>

ParseNext == CallParseSwap \/ CallGetPageSize \/ CallGetSystemMetrics

ParseSpec == ParseInit /\ [][ParseNext]_vars

(***************************************************************************)
(* Properties of the parsers and of the classification (under ParseSpec)   *)
(***************************************************************************)
Returned(fn) == call.fn = fn /\ ret.exc = "none"

\* C8: the memory_pressure of every snapshot get_system_metrics produces is
\* decided by (mem_free_mb, mem_total_mb, swap_used_mb) alone: "high" iff
\* free < 5% of total or swap > 256, else "medium" iff free < 10% of total or
\* swap > 0, else "low"; the inactive pages play no part.
C8_PressureFromFreeTotalSwap ==
    Returned("get_system_metrics") =>
        LET s == ret.val
            high == 100 * s.mem_free_mb < 5 * s.mem_total_mb \/ s.swap_used_mb > 256
            medium == 100 * s.mem_free_mb < 10 * s.mem_total_mb \/ s.swap_used_mb > 0
        IN /\ s.memory_pressure \in {"low", "medium", "high"}
           /\ (s.memory_pressure = "high") <=> high
           /\ (s.memory_pressure = "medium") <=> (~high /\ medium)
           /\ (s.memory_pressure = "low") <=> (~high /\ ~medium)

\* C8 witness: free memory exactly at 5% of the total, no swap, inactive
\* pages present: the snapshot is classified "medium".
C8_Witness ==
    /\ Returned("get_system_metrics")
    /\ call.inactive > 0
    /\ ret.val.mem_total_mb = 100 /\ ret.val.mem_free_mb = 5
    /\ ret.val.swap_used_mb = 0
    /\ ret.val.memory_pressure = "medium"

\* The value of a well-formed magnitude in hundredths, read off the text.
WellFormedMagnitudes ==
    {<<"0", ".", "0", "0">>, <<"0", ".", "5", "0">>, <<"1", ".", "0", "0">>,
     <<"2", "5", "6", ".", "0", "0">>, <<"2", "5", "6", ".", "9", "9">>,
     <<"2", "5", "7">>, <<"1", ".", "5", "0">>, <<"0", ".", "2", "5">>,
     <<"0", ".", "2", "6">>, <<".", "5">>, <<"3", ".">>, <<"-", "1", ".", "5">>,
     <<"9", "9", "9", ".", "0", "0">>}

Hundredths(mag) ==
    CASE mag = <<"0", ".", "0", "0">> -> 0
      [] mag = <<"0", ".", "5", "0">> -> 50
      [] mag = <<"1", ".", "0", "0">> -> 100
      [] mag = <<"2", "5", "6", ".", "0", "0">> -> 25600
      [] mag = <<"2", "5", "6", ".", "9", "9">> -> 25699
      [] mag = <<"2", "5", "7">> -> 25700
      [] mag = <<"1", ".", "5", "0">> -> 150
      [] mag = <<"0", ".", "2", "5">> -> 25
      [] mag = <<"0", ".", "2", "6">> -> 26
      [] mag = <<".", "5">> -> 50
      [] mag = <<"3", ".">> -> 300
      [] mag = <<"-", "1", ".", "5">> -> -150
      [] mag = <<"9", "9", "9", ".", "0", "0">> -> 99900

TowardZero(n, d) == IF n >= 0 THEN n \div d ELSE -((-n) \div d)

\* C9: parse_swap_used_mb returns the magnitude after the first "used" (in
\* any letter case, "=" read as a separator) truncated toward zero: as MB
\* with M/m, times 1024 with G/g, raw without a unit; and 0 when the text
\* holds no "used".
C9_ParseSwapUsed ==
    (call.fn = "parse_swap_used_mb" /\ ret.exc # "pending") =>
        /\ ~call.has_used => ret = Return(0)
        /\ (call.has_used /\ call.used_mag \in WellFormedMagnitudes) =>
              LET h == Hundredths(call.used_mag)
              IN /\ call.used_unit \in {<<"M">>, <<"m">>, <<>>}
                        => ret = Return(TowardZero(h, 100))
                 /\ call.used_unit \in {<<"G">>, <<"g">>}
                        => ret = Return(TowardZero(h * 1024, 100))

\* C9 witness: "total = 2.00G used = 1.50G free = 0.50G" gave 1536.
C9_Witness ==
    /\ call.fn = "parse_swap_used_mb"
    /\ call.swap_output = TxtSwapExampleG
    /\ ret = Return(1536)

(***************************************************************************)
(* SysStoreSpec: insert_system_snapshot and the two system queries called  *)
(* in any order with any snapshot; ProcStoreSpec: the same for             *)
(* insert_process_snapshots and fetch_top_processes.                       *)
(***************************************************************************)
\* Rows a table holds before its storage is full: a write beyond it fails.
MaxSystemRows == 3
MaxProcessRows == 3
\* The widest window, in minutes, and the largest limit a query is given.
MaxWindow == 1
MaxLimit == 2

StoreTimes == {60, 120}

SnapshotAt(t, busy) ==
    [timestamp |-> t,
     mem_total_mb |-> 100,
     mem_used_mb |-> IF busy THEN 90 ELSE 40,
     mem_free_mb |-> IF busy THEN 4 ELSE 50,
     mem_compressed_mb |-> IF busy THEN 2 ELSE 1,
     swap_used_mb |-> IF busy THEN 300 ELSE 0,
     memory_pressure |-> IF busy THEN "high" ELSE "low"]

\* snapshots handed to insert_system_snapshot; the last lacks a key
SnapshotInputs ==
    {SnapshotAt(t, busy) : t \in {59, 60, 120}, busy \in BOOLEAN}
        \cup {[timestamp |-> 60, mem_total_mb |-> 100]}

WriteFailures == {"no", "execute", "commit"}

SysStoreInit ==
    /\ now \in StoreTimes
    /\ system_table = <<>>
    /\ process_table = <<>>
    /\ call = NoCall
    /\ ret = Pending
    /\ LoopOff
    /\ ReadersOff

\* the snapshot the call just before stored, if that call was a successful insert
JustInserted ==
    IF call.fn = "insert_system_snapshot" /\ ret.exc = "none"
    THEN Project(call.snapshot, SystemColumns) ELSE NoData

CallInsertSystemSnapshot ==
    \E s \in SnapshotInputs, wf \in WriteFailures :
        /\ Len(system_table) >= MaxSystemRows => wf = "execute"
        /\ LET r == insert_system_snapshot(system_table, s, wf)
           IN /\ system_table' = r.table
              /\ call' = [fn |-> "insert_system_snapshot", snapshot |-> s]
              /\ ret' = [exc |-> r.exc, val |-> 0]
        /\ UNCHANGED <<db, reader, now, process_table, LoopVars>>

CallFetchLatestSnapshot ==
    \E rf \in BOOLEAN :
        \E r \in fetch_latest_snapshot(system_table, rf) :
            /\ call' = [fn |-> "fetch_latest_snapshot", read_fails |-> rf,
                        inserted |-> JustInserted]
            /\ ret' = r
            /\ UNCHANGED <<db, reader, now, system_table, process_table, LoopVars>>

CallFetchSystemSnapshots ==
    \E w \in 0..MaxWindow, rf \in BOOLEAN :
        /\ call' = [fn |-> "fetch_system_snapshots", window_minutes |-> w, clock |-> now]
        /\ ret' = fetch_system_snapshots(system_table, w, now, rf)
        /\ UNCHANGED <<db, reader, now, system_table, process_table, LoopVars>>

\* the wall clock reads another time (it can be set back)
ClockSet ==
    /\ now' \in StoreTimes \ {now}
    /\ UNCHANGED <<db, reader, system_table, process_table, call, ret, LoopVars>>

SysStoreNext ==
    \/ CallInsertSystemSnapshot
    \/ CallFetchLatestSnapshot
    \/ CallFetchSystemSnapshots
    \/ ClockSet

SysStoreSpec == SysStoreInit /\ [][SysStoreNext]_vars

ProcessRow(t, name, pid, rss, fg) ==
    [timestamp |-> t, pid |-> pid, process_name |-> name, rss_mb |-> rss,
     vms_mb |-> rss + 100, shared_mb |-> 0, cpu_percent |-> 0, is_foreground |-> fg]

\* three samples of ("X", 1), one of them a second older, and one sample each
\* of the same name under another pid and of the same pid under another name
ProcessRowInputs ==
    {ProcessRow(60, "X", 1, 10, 1), ProcessRow(59, "X", 1, 20, 0),
     ProcessRow(60, "X", 1, 30, 1), ProcessRow(59, "X", 2, 30, 0),
     ProcessRow(60, "Y", 1, 40, 0)}

\* a record without rss_mb
ProcessRowNoRss == [timestamp |-> 60, pid |-> 1, process_name |-> "X"]

\* lists handed to insert_process_snapshots: empty, one row, two rows, and
\* lists whose first or second element lacks a key
ProcessListInputs ==
    {<<>>} \cup {<<a>> : a \in ProcessRowInputs}
           \cup {<<ProcessRow(60, "X", 1, 10, 1), ProcessRow(59, "X", 1, 20, 0)>>,
                 <<ProcessRow(60, "X", 1, 30, 1), ProcessRow(59, "X", 2, 30, 0)>>,
                 <<ProcessRow(60, "Y", 1, 40, 0), ProcessRow(60, "X", 1, 10, 1)>>,
                 <<ProcessRowNoRss>>,
                 <<ProcessRow(60, "X", 1, 10, 1), ProcessRowNoRss>>}

ProcStoreInit == SysStoreInit

\* On a full store the write that exceeds it fails, if none failed before.
\* With nothing to write, neither a write nor the commit can fail.
CallInsertProcessSnapshots ==
    \E list \in ProcessListInputs :
        \E fail_at \in 0..(IF list = <<>> THEN 0 ELSE Len(list) + 1) :
            /\ Len(process_table) + Len(list) > MaxProcessRows
                  => fail_at \in 1..(MaxProcessRows - Len(process_table) + 1)
            /\ LET r == insert_process_snapshots(process_table, list, fail_at)
               IN /\ process_table' = r.table
                  /\ call' = [fn |-> "insert_process_snapshots", snapshots |-> list,
                              fail_at |-> fail_at]
                  /\ ret' = [exc |-> r.exc, val |-> 0]
            /\ UNCHANGED <<db, reader, now, system_table, LoopVars>>

CallFetchTopProcesses ==
    \E w \in {0, MaxWindow}, limit \in 0..MaxLimit, rf \in BOOLEAN :
        /\ call' = [fn |-> "fetch_top_processes", window_minutes |-> w,
                    limit |-> limit, clock |-> now]
        /\ ret' = fetch_top_processes(process_table, w, limit, now, rf)
        /\ UNCHANGED <<db, reader, now, system_table, process_table, LoopVars>>

ProcStoreNext ==
    \/ CallInsertProcessSnapshots
    \/ CallFetchTopProcesses
    \/ ClockSet

ProcStoreSpec == ProcStoreInit /\ [][ProcStoreNext]_vars

(***************************************************************************)
(* Properties of the store and of the queries                              *)
(***************************************************************************)
\* C4: insert_process_snapshots is all-or-nothing: when it returns, every
\* row of the list has been appended, in order; when it raises (a missing
\* key in any element, a failed write of any row, a failed commit) the table
\* is what it was; an empty list succeeds and changes nothing.
C4_InsertProcessAllOrNothing ==
    [][(call'.fn = "insert_process_snapshots" /\ now' = now) =>
          LET list == call'.snapshots
          IN /\ ret'.exc = "none" =>
                   /\ Len(process_table') = Len(process_table) + Len(list)
                   /\ SubSeq(process_table', 1, Len(process_table)) = process_table
                   /\ \A i \in 1..Len(list) :
                         Project(process_table'[Len(process_table) + i], ProcessColumns)
                             = Project(list[i], ProcessColumns)
             /\ ret'.exc # "none" => process_table' = process_table
             /\ list = <<>> => ret'.exc = "none" /\ process_table' = process_table
      ]_vars

\* C4 witness: the second write of a two-row list failed on a table that
\* already held rows: the first row had been written and was rolled back.
C4_Witness ==
    /\ call.fn = "insert_process_snapshots"
    /\ Len(call.snapshots) = 2 /\ call.fail_at = 2
    /\ ret.exc = "sqlite3.Error"
    /\ process_table # <<>>

MaxTimestamp(table) == Max({table[i].timestamp : i \in 1..Len(table)})

\* C5 as claimed: after any prior inserts, a fetch_latest_snapshot that
\* follows a successful insert returns the inserted values.
C5_RoundTripAfterAnyInserts ==
    (Returned("fetch_latest_snapshot") /\ call.inserted # NoData) =>
        ret.val = call.inserted

\* C5 as amended: the fetch returns a stored row of greatest timestamp; it
\* returns the values just inserted when their timestamp is greater than
\* that of every row stored before; on an empty table it returns the
\* no-data result and raises nothing.
C5_RoundTripWhenNewest ==
    (call.fn = "fetch_latest_snapshot" /\ ~call.read_fails) =>
        /\ ret.exc = "none"
        /\ system_table = <<>> <=> ret.val = NoData
        /\ system_table # <<>> =>
              /\ \E i \in 1..Len(system_table) :
                    ret.val = Project(system_table[i], SystemColumns)
              /\ ret.val.timestamp = MaxTimestamp(system_table)
        /\ (/\ call.inserted # NoData
            /\ \A i \in 1..(Len(system_table) - 1) :
                  system_table[i].timestamp < call.inserted.timestamp)
              => ret.val = call.inserted

\* C5 witness: a snapshot inserted after two older rows came back unchanged.
C5_Witness ==
    /\ Returned("fetch_latest_snapshot")
    /\ Len(system_table) = 3
    /\ call.inserted # NoData
    /\ \A i \in 1..2 : system_table[i].timestamp < call.inserted.timestamp
    /\ ret.val = call.inserted

\* the number of places of a sequence that hold x
Count(seq, x) == Cardinality({i \in 1..Len(seq) : seq[i] = x})

\* C6: fetch_system_snapshots returns exactly the stored rows with
\* timestamp >= now - window_minutes * 60, each as often as it is stored (a
\* row at exactly that bound is in, every older row is out), in
\* non-decreasing timestamp order.
C6_WindowedSnapshots ==
    Returned("fetch_system_snapshots") =>
        LET bound == call.clock - call.window_minutes * 60
            inside == {i \in 1..Len(system_table) : system_table[i].timestamp >= bound}
            column(i) == Project(system_table[i], SnapshotsColumns)
            res == ret.val
        IN /\ Len(res) = Cardinality(inside)
           /\ \A i \in inside :
                 Count(res, column(i)) = Cardinality({j \in inside : column(j) = column(i)})
           /\ \A k \in 1..Len(res) : \E i \in inside : res[k] = column(i)
           /\ \A k \in 1..(Len(res) - 1) : res[k].timestamp <= res[k + 1].timestamp

\* C6 witness: a row exactly at the bound was returned, a row one second
\* older was left out, and the rows came back in another order than stored.
C6_Witness ==
    /\ Returned("fetch_system_snapshots")
    /\ LET bound == call.clock - call.window_minutes * 60
       IN /\ \E k \in 1..Len(ret.val) : ret.val[k].timestamp = bound
          /\ \E i \in 1..Len(system_table) : system_table[i].timestamp = bound - 1
    /\ Len(ret.val) = 2
    /\ system_table[1].timestamp > system_table[Len(system_table)].timestamp

RECURSIVE SumOver(_, _)
SumOver(S, f) ==
    IF S = {} THEN 0
    ELSE LET x == CHOOSE y \in S : TRUE IN f[x] + SumOver(S \ {x}, f)

\* C7: fetch_top_processes returns one entry per distinct (process_name, pid)
\* among the rows in the window, with max_rss_mb their greatest rss,
\* avg_rss_mb their mean rss, times_seen their number and foreground_ratio
\* the fraction of them in the foreground (from 0 to 1); the entries are in
\* non-increasing max_rss_mb order, at most limit of them, and no group left
\* out has a greater max_rss_mb than one returned.
C7_TopProcesses ==
    Returned("fetch_top_processes") =>
        LET bound == call.clock - call.window_minutes * 60
            inside == {i \in 1..Len(process_table) : process_table[i].timestamp >= bound}
            pair(i) == <<process_table[i].process_name, process_table[i].pid>>
            pairs == {pair(i) : i \in inside}
            members(e) == {i \in inside : pair(i) = <<e.process_name, e.pid>>}
            rss(i) == process_table[i].rss_mb
            rss_at == [i \in inside |-> rss(i)]
            fg(i) == process_table[i].is_foreground
            greatest(pr) == Max({rss(i) : i \in {j \in inside : pair(j) = pr}})
            res == ret.val
            returned == {<<res[k].process_name, res[k].pid>> : k \in 1..Len(res)}
        IN /\ returned \subseteq pairs
           /\ Cardinality(returned) = Len(res)
           /\ Len(res) = IF Cardinality(pairs) < call.limit
                         THEN Cardinality(pairs) ELSE call.limit
           /\ \A k \in 1..Len(res) :
                 LET e == res[k]
                     n == Cardinality(members(e))
                 IN /\ e.max_rss_mb = Max({rss(i) : i \in members(e)})
                    /\ e.times_seen = n
                    /\ e.avg_rss_mb.num * n = SumOver(members(e), rss_at) * e.avg_rss_mb.den
                    /\ e.foreground_ratio.num * n
                          = Cardinality({i \in members(e) : fg(i) = 1})
                                * e.foreground_ratio.den
                    /\ e.avg_rss_mb.den > 0 /\ e.foreground_ratio.den > 0
                    /\ 0 <= e.foreground_ratio.num
                    /\ e.foreground_ratio.num <= e.foreground_ratio.den
           /\ \A k \in 1..(Len(res) - 1) : res[k].max_rss_mb >= res[k + 1].max_rss_mb
           /\ \A pr \in pairs \ returned :
                 \A k \in 1..Len(res) : greatest(pr) <= res[k].max_rss_mb

\* C7 witness: three samples of ("X", 1) with rss 10, 20, 30, in the
\* foreground in the first and the third: max 30, mean 20, seen 3 times,
\* foreground ratio 2/3.
C7_Witness ==
    /\ Returned("fetch_top_processes")
    /\ \E k \in 1..Len(ret.val) :
          /\ ret.val[k].process_name = "X" /\ ret.val[k].pid = 1
          /\ ret.val[k].max_rss_mb = 30
          /\ ret.val[k].avg_rss_mb = [num |-> 60, den |-> 3]
          /\ ret.val[k].times_seen = 3
          /\ ret.val[k].foreground_ratio = [num |-> 2, den |-> 3]

\* C7 witness of the truncation: three groups stored, the limit two, and the
\* group left out is the smallest
C7_WitnessTruncated ==
    /\ Returned("fetch_top_processes")
    /\ call.limit = 2 /\ Len(ret.val) = 2
    /\ Cardinality({<<process_table[i].process_name, process_table[i].pid>> :
                       i \in 1..Len(process_table)}) = 3
    /\ call.window_minutes = 1 /\ call.clock = 60

(***************************************************************************)
(* Spec: collector.main, the sampling loop                                 *)
(***************************************************************************)
\* The clock of the loop runs from 0 to MaxTime.
MaxTime == 1

LoopVmStat(header) == ProbeOk(VmStatText(header, 320, 32, 640, 32, 64))

VmStatGood == LoopVmStat(TxtVmStatHeader \o <<"1", "6", "3", "8", "4">> \o TxtVmStatHeaderEnd)
MemsizeGood == ProbeOk(NatText(100 * MIB))
SwapGood == ProbeOk(TxtSwapTotal \o TxtUsedEq \o <<"0", ".", "0", "0", "M">> \o TxtSwapFree)

Probes(m, v1, v2, sw, text) ==
    [memsize |-> m, vm_stat_1 |-> v1, vm_stat_2 |-> v2, swapusage |-> sw, text |-> text]

\* What the four commands of get_system_metrics give in one cycle: all well;
\* one of them failing; or all well but for the page-size text (absent, or
\* not an integer) or the swap magnitude (unparsable).
SystemProbes ==
    {Probes(MemsizeGood, VmStatGood, VmStatGood, SwapGood, "none"),
     Probes(ProbeFail("nonzero"), VmStatGood, VmStatGood, SwapGood, "none"),
     Probes(MemsizeGood, ProbeFail("missing"), VmStatGood, SwapGood, "none"),
     Probes(MemsizeGood, VmStatGood, ProbeFail("nonzero"), SwapGood, "none"),
     Probes(MemsizeGood, VmStatGood, VmStatGood, ProbeFail("nonzero"), "none"),
     Probes(MemsizeGood, LoopVmStat(TxtVmStatNoHeader), LoopVmStat(TxtVmStatNoHeader),
            SwapGood, "page_size_absent"),
     Probes(MemsizeGood,
            LoopVmStat(TxtVmStatHeader \o <<"1", "6", "K">> \o TxtVmStatHeaderEnd),
            VmStatGood, SwapGood, "page_size_not_integer"),
     Probes(MemsizeGood, VmStatGood, VmStatGood,
            ProbeOk(TxtUsedEq \o <<"a", "b", "c", "M">>), "swap_unparsable")}

CommandsOk(p) ==
    \A c \in {p.memsize, p.vm_stat_1, p.vm_stat_2, p.swapusage} : c.status = "ok"

\* osascript: the frontmost application, or a failure (non-zero exit, timeout)
FrontmostProbes == {ProbeOk("Safari"), ProbeFail("nonzero")}

ProcInfo(pid, name, rss, status) ==
    [pid |-> pid, name |-> name, status |-> status, cpu_percent |-> None,
     memory_info |-> Some([rss |-> rss, vms |-> rss + MIB])]

\* psutil.process_iter: three processes of which one has vanished, or none;
\* or the enumeration itself fails.
Enumerations ==
    {Return(<<ProcInfo(1, Some("Terminal"), 20 * MIB, "ok"),
              ProcInfo(2, Some("Safari"), 30 * MIB, "ok"),
              ProcInfo(3, Some("mdworker"), 40 * MIB, "NoSuchProcess")>>),
     Return(<<>>),
     Raise("psutil.Error")}

\* get_system_metrics on each outcome of the probes at each time of the clock
SystemMetricsAt ==
    [p \in SystemProbes |->
        [t \in 0..MaxTime |->
            get_system_metrics(p.memsize, p.vm_stat_1, p.vm_stat_2, p.swapusage, t)]]

\* a try whose handler names sqlite3.Error alone: anything else ends the process
OnRaiseStoreOnly(exc) == IF exc = "sqlite3.Error" THEN "except" ELSE "exited"

\* where main goes when a statement inside its try raises: every exception
\* the probes, the parsers and the store raise is an Exception
OnRaise(exc) == "except"

Init ==
    /\ now = 0
    /\ system_table = <<>>
    /\ process_table = <<>>
    /\ call = NoCall
    /\ ret = Pending
    /\ pc = "init_db"
    /\ system_snapshot = NoData
    /\ frontmost_app = None
    /\ process_snapshots = <<>>
    /\ cycle = NoCycle
    /\ signal = "none"
    /\ ReadersOff

\* line 203: init_db creates the schema or raises, which ends the process
InitDb ==
    /\ pc = "init_db"
    /\ \E ok \in BOOLEAN : pc' = IF ok THEN "get_system_metrics" ELSE "exited"
    /\ UNCHANGED <<db, reader, signal, now, system_table, process_table, call, ret,
                   system_snapshot,
                   frontmost_app, process_snapshots, cycle>>

\* line 210: system_snapshot = get_system_metrics()
GetSystemMetrics ==
    /\ pc = "get_system_metrics"
    /\ \E p \in SystemProbes :
          LET r == SystemMetricsAt[p][now]
              seen == [cycle EXCEPT !.text = p.text, !.commands_ok = CommandsOk(p)]
          IN IF Ok(r)
             THEN /\ system_snapshot' = r.val
                  /\ cycle' = seen
                  /\ pc' = "insert_system_snapshot"
             ELSE /\ system_snapshot' = system_snapshot
                  /\ cycle' = [seen EXCEPT !.raised = r.exc, !.at = "get_system_metrics"]
                  /\ pc' = OnRaise(r.exc)
    /\ UNCHANGED <<db, reader, signal, now, system_table, process_table, call, ret,
                   frontmost_app,
                   process_snapshots>>

\* a loop that goes on to the probes without storing the system snapshot
SkipInsertSystemSnapshot ==
    /\ pc = "insert_system_snapshot"
    /\ pc' = "get_frontmost_app_name"
    /\ UNCHANGED <<now, system_table, process_table, call, ret, system_snapshot,
                   frontmost_app, process_snapshots, cycle, signal, db, reader>>

\* line 211: insert_system_snapshot(DB_PATH, system_snapshot)
InsertSystemSnapshot ==
    /\ pc = "insert_system_snapshot"
    /\ \E wf \in WriteFailures :
          /\ Len(system_table) >= MaxSystemRows => wf = "execute"
          /\ LET r == insert_system_snapshot(system_table, system_snapshot, wf)
             IN /\ system_table' = r.table
                /\ IF r.exc = "none"
                   THEN /\ cycle' = [cycle EXCEPT !.sys_rows = @ + 1]
                        /\ pc' = "get_frontmost_app_name"
                   ELSE /\ cycle' = [cycle EXCEPT !.raised = r.exc,
                                                  !.at = "insert_system_snapshot"]
                        /\ pc' = OnRaise(r.exc)
    /\ UNCHANGED <<db, reader, signal, now, process_table, call, ret,
                   system_snapshot, frontmost_app,
                   process_snapshots>>

\* line 214: frontmost_app = get_frontmost_app_name()
GetFrontmostAppName ==
    /\ pc = "get_frontmost_app_name"
    /\ \E o \in FrontmostProbes : frontmost_app' = get_frontmost_app_name(o)
    /\ pc' = "get_process_metrics"
    /\ UNCHANGED <<db, reader, signal, now, system_table, process_table, call, ret,
                   system_snapshot,
                   process_snapshots, cycle>>

\* lines 215-216: process_snapshots = get_process_metrics(frontmost_app)
GetProcessMetrics ==
    /\ pc = "get_process_metrics"
    /\ \E e \in Enumerations :
          IF Ok(e)
          THEN /\ process_snapshots' = get_process_metrics(e.val, frontmost_app, now)
               /\ cycle' = [cycle EXCEPT !.enumerated = TRUE]
               /\ pc' = IF process_snapshots' # <<>> THEN "insert_process_snapshots"
                        ELSE "report"
          ELSE /\ process_snapshots' = process_snapshots
               /\ cycle' = [cycle EXCEPT !.raised = e.exc, !.at = "get_process_metrics"]
               /\ pc' = OnRaise(e.exc)
    /\ UNCHANGED <<db, reader, signal, now, system_table, process_table, call, ret,
                   system_snapshot,
                   frontmost_app>>

\* line 217: insert_process_snapshots(DB_PATH, process_snapshots)
InsertProcessSnapshots ==
    /\ pc = "insert_process_snapshots"
    /\ \E fail_at \in 0..(Len(process_snapshots) + 1) :
          /\ Len(process_table) + Len(process_snapshots) > MaxProcessRows
                => fail_at \in 1..(MaxProcessRows - Len(process_table) + 1)
          /\ LET r == insert_process_snapshots(process_table, process_snapshots, fail_at)
             IN /\ process_table' = r.table
                /\ IF r.exc = "none"
                   THEN /\ cycle' = [cycle EXCEPT
                                        !.proc_rows = @ + Len(process_snapshots)]
                        /\ pc' = "report"
                   ELSE /\ cycle' = [cycle EXCEPT !.raised = r.exc,
                                                  !.at = "insert_process_snapshots"]
                        /\ pc' = OnRaise(r.exc)
    /\ UNCHANGED <<db, reader, signal, now, system_table, call, ret, system_snapshot,
                   frontmost_app,
                   process_snapshots>>

\* lines 219-222: the line printed for a collected cycle
Report ==
    /\ pc = "report"
    /\ pc' = "sleep"
    /\ UNCHANGED <<db, reader, signal, now, system_table, process_table, call, ret,
                   system_snapshot,
                   frontmost_app, process_snapshots, cycle>>

\* lines 224-225: except Exception: the line printed for a failed cycle
Except ==
    /\ pc = "except"
    /\ pc' = "sleep"
    /\ UNCHANGED <<db, reader, signal, now, system_table, process_table, call, ret,
                   system_snapshot,
                   frontmost_app, process_snapshots, cycle>>

\* line 227: time.sleep, then the next cycle begins; the locals of the cycle
\* that ended are not read again.
Sleep ==
    /\ pc = "sleep"
    /\ pc' = "get_system_metrics"
    /\ system_snapshot' = NoData
    /\ frontmost_app' = None
    /\ process_snapshots' = <<>>
    /\ cycle' = NoCycle
    /\ UNCHANGED <<db, reader, signal, now, system_table, process_table, call, ret>>

\* a second passes on the wall clock
Tick ==
    /\ now < MaxTime
    /\ now' = now + 1
    /\ UNCHANGED <<db, reader, system_table, process_table, call, ret, LoopVars>>

Loop ==
    \/ InitDb
    \/ GetSystemMetrics
    \/ InsertSystemSnapshot
    \/ GetFrontmostAppName
    \/ GetProcessMetrics
    \/ InsertProcessSnapshots
    \/ Report
    \/ Except
    \/ Sleep

Next == Loop \/ Tick

Spec == Init /\ [][Next]_vars

\* The process is scheduled: a statement that can run does run.
FairSpec == Spec /\ WF_vars(Loop)

(***************************************************************************)
(* Properties of the sampling loop                                         *)
(***************************************************************************)
\* C1: once init_db has succeeded the loop never ends: whatever a probe, a
\* parser or the store raises in a cycle is caught at the end of the cycle
\* (the process leaves only from init_db), and after a failed cycle the next
\* cycle is eventually started.
C1_FailedCycleNeverEndsLoop ==
    /\ [][pc' = "exited" /\ pc # "exited" => pc = "init_db"]_vars
    /\ [][cycle'.raised # cycle.raised /\ cycle'.raised # "none" => pc' = "except"]_vars
    /\ (cycle.raised # "none") ~> (pc = "get_system_metrics" /\ cycle = NoCycle)

\* a cycle whose store of process rows failed has been caught and is asleep
C1_Witness ==
    /\ pc = "sleep"
    /\ cycle.at = "insert_process_snapshots"
    /\ cycle.raised = "sqlite3.Error"

\* C2: a cycle in which one of the system-memory commands failed still runs
\* its process enumeration before it ends.
C2_ProbeFailureIsolated ==
    (pc = "sleep" /\ ~cycle.commands_ok) => cycle.enumerated

\* C3: in a cycle that has stored both kinds of rows, each process row it
\* stored carries the timestamp of the system row it stored.
C3_CycleSharesTimestamp ==
    (cycle.sys_rows = 1 /\ cycle.proc_rows > 0) =>
        \A i \in (Len(process_table) - cycle.proc_rows + 1)..Len(process_table) :
            process_table[i].timestamp = system_table[Len(system_table)].timestamp

\* C10: a cycle whose commands all succeeded but whose page-size text is
\* absent or not an integer, or whose swap magnitude is unparsable, raises
\* nothing while collecting and -- unless the store itself fails -- stores
\* its system snapshot, computed with page size 4096, resp. swap 0.
C10_MalformedTextFallsBack ==
    (pc = "sleep" /\ cycle.commands_ok /\ cycle.text # "none") =>
        /\ cycle.at # "get_system_metrics"
        /\ cycle.at # "insert_system_snapshot" =>
              /\ cycle.sys_rows = 1
              /\ LET row == system_table[Len(system_table)]
                 IN /\ cycle.text \in {"page_size_absent", "page_size_not_integer"}
                          => row.mem_free_mb = (320 * PAGE_SIZE_FALLBACK) \div MIB
                    /\ cycle.text = "swap_unparsable" => row.swap_used_mb = 0

(***************************************************************************)
(* Further properties of get_system_metrics (under ParseSpec)              *)
(***************************************************************************)
\* C11: mem_used_mb of every snapshot get_system_metrics produces is the
\* active and wired page counts added and then converted to MB,
\* floor((active + wired) * page_size / 2^20).
C11_UsedIsActivePlusWiredConverted ==
    Returned("get_system_metrics") =>
        ret.val.mem_used_mb =
            pages_to_mb(call.active + call.wired, get_page_size(call.vm_stat).val)

(***************************************************************************)
(* RankSpec: get_process_metrics on bounded enumerations                   *)
(***************************************************************************)
\* an enumeration holds at most MaxProcs processes
MaxProcs == 4

\* What process_iter yields for one process: a name (or none, or ""), a
\* resident size, and whether its inspection raises or finds no memory_info.
\* 30 MiB and 30 MiB + 1000 bytes are both 30 MB.
ProcKinds ==
    {[name |-> Some("Safari"), rss |-> 30 * MIB, status |-> "ok", mem |-> TRUE],
     [name |-> Some("Terminal"), rss |-> 30 * MIB + 1000, status |-> "ok", mem |-> TRUE],
     [name |-> None, rss |-> 40 * MIB, status |-> "ok", mem |-> TRUE],
     [name |-> Some(""), rss |-> 20 * MIB, status |-> "ok", mem |-> TRUE],
     [name |-> Some("Safari"), rss |-> 50 * MIB, status |-> "raises", mem |-> TRUE],
     [name |-> Some("Terminal"), rss |-> 50 * MIB, status |-> "ok", mem |-> FALSE]}

\* the three exceptions the loop over the processes catches
InspectionErrors == <<"NoSuchProcess", "AccessDenied", "ZombieProcess">>

\* the process at position pid of the enumeration (pids are distinct)
Enumerated(kind, pid) ==
    [pid |-> pid,
     name |-> kind.name,
     status |-> IF kind.status = "ok" THEN "ok" ELSE InspectionErrors[(pid % 3) + 1],
     cpu_percent |-> IF pid % 2 = 0 THEN None ELSE Some(pid),
     memory_info |-> IF kind.mem THEN Some([rss |-> kind.rss, vms |-> kind.rss + MIB])
                     ELSE None]

EnumerationInputs ==
    UNION {{[pid \in 1..n |-> Enumerated(kinds[pid], pid)] : kinds \in [1..n -> ProcKinds]} :
              n \in 0..MaxProcs}

\* the frontmost application: none, the empty output, or a name
FrontmostInputs == {None, Some(""), Some("Safari"), Some("unknown")}

RankInit ==
    /\ now = 60
    /\ \E procs \in EnumerationInputs, f \in FrontmostInputs :
          call = [fn |-> "get_process_metrics", procs |-> procs, frontmost_app |-> f]
    /\ ret = Pending
    /\ system_table = <<>>
    /\ process_table = <<>>
    /\ LoopOff
    /\ ReadersOff

CallGetProcessMetrics ==
    /\ call.fn = "get_process_metrics" /\ ret.exc = "pending"
    /\ ret' = Return(get_process_metrics(call.procs, call.frontmost_app, now))
    /\ UNCHANGED <<db, reader, now, call, system_table, process_table, LoopVars>>

RankNext == CallGetProcessMetrics

RankSpec == RankInit /\ [][RankNext]_vars

(***************************************************************************)
(* Properties of get_process_metrics (under RankSpec)                      *)
(***************************************************************************)
\* the positions of the processes whose inspection neither raised nor
\* found memory_info missing
Inspected(procs) ==
    {i \in 1..Len(procs) : procs[i].status = "ok" /\ procs[i].memory_info # None}

ResidentMb(info) == info.memory_info[1].rss \div MIB

\* C12: get_process_metrics never fails on a process that vanished, denied
\* access or is a zombie: it drops it. It returns at most TOP_N_PROCESSES of
\* the remaining processes (all of them when they are fewer), in
\* non-increasing rss_mb order, equal rss_mb in enumeration order, and no
\* process left out has a greater rss_mb than one returned.
C12_TopByResidentMemory ==
    (call.fn = "get_process_metrics" /\ ret.exc # "pending") =>
        /\ ret.exc = "none"
        /\ LET out == ret.val
               procs == call.procs
               returned == {out[k].pid : k \in 1..Len(out)}
           IN /\ Len(out) <= TOP_N_PROCESSES
              /\ Len(out) = TOP_N_PROCESSES \/ returned = Inspected(procs)
              /\ returned \subseteq Inspected(procs)
              /\ Cardinality(returned) = Len(out)
              /\ \A k \in 1..Len(out) : out[k].rss_mb = ResidentMb(procs[out[k].pid])
              /\ \A k, l \in 1..Len(out) :
                    k < l => /\ out[k].rss_mb >= out[l].rss_mb
                             /\ out[k].rss_mb = out[l].rss_mb => out[k].pid < out[l].pid
              /\ \A i \in Inspected(procs) \ returned : \A k \in 1..Len(out) :
                    /\ ResidentMb(procs[i]) <= out[k].rss_mb
                    /\ ResidentMb(procs[i]) = out[k].rss_mb => out[k].pid < i

\* C12 witness: of four processes one was dropped, two of equal rss_mb were
\* returned and a smaller one was left out.
C12_Witness ==
    /\ Returned("get_process_metrics")
    /\ Len(call.procs) = 4
    /\ Cardinality(Inspected(call.procs)) = 3
    /\ Len(ret.val) = 2
    /\ ret.val[1].rss_mb = ret.val[2].rss_mb
    /\ \E i \in Inspected(call.procs) : ResidentMb(call.procs[i]) < ret.val[2].rss_mb

\* C13 as claimed: is_foreground is 1 exactly for the records whose
\* process_name equals the frontmost application name.
C13_ForegroundIffRecordNameEqual ==
    Returned("get_process_metrics") =>
        \A k \in 1..Len(ret.val) :
            (ret.val[k].is_foreground = 1) <=>
                (call.frontmost_app # None
                     /\ ret.val[k].process_name = call.frontmost_app[1])

\* C13 as amended: is_foreground is 1 exactly when the frontmost name is
\* present and not empty and the name the process was enumerated with equals
\* it; a record named by the sentinel "unknown" is never in the foreground.
C13_ForegroundIffEnumeratedNameEqual ==
    Returned("get_process_metrics") =>
        \A k \in 1..Len(ret.val) :
            LET r == ret.val[k]
                info == call.procs[r.pid]
                named == info.name # None /\ info.name # Some("")
            IN /\ r.is_foreground \in {0, 1}
               /\ r.process_name = IF named THEN info.name[1] ELSE "unknown"
               /\ (r.is_foreground = 1) <=>
                     /\ call.frontmost_app # None
                     /\ call.frontmost_app # Some("")
                     /\ info.name = call.frontmost_app
               /\ ~named => r.is_foreground = 0

\* C13 witness: with "Safari" frontmost, a returned Safari record is in the
\* foreground and a returned record without a name is "unknown" and is not.
C13_Witness ==
    /\ Returned("get_process_metrics")
    /\ call.frontmost_app = Some("Safari")
    /\ \E k, l \in 1..Len(ret.val) :
          /\ ret.val[k].process_name = "Safari" /\ ret.val[k].is_foreground = 1
          /\ ret.val[l].process_name = "unknown" /\ ret.val[l].is_foreground = 0

(***************************************************************************)
(* ConsumerSpec: validate_schema, the dashboard and the advisor            *)
(***************************************************************************)
\* validate_schema's required_tables, in the order the loop visits them
required_tables == <<"system_snapshot", "process_snapshot">>

\* validate_schema from table number i on: PRAGMA table_info of each table;
\* a table without rows does not exist.  Only the success path closes the
\* connection: open is the number of connections left open.
RECURSIVE ValidateFrom(_, _)
ValidateFrom(schema, i) ==
    IF i > Len(required_tables) THEN [exc |-> "none", val |-> 0, open |-> 0]
    ELSE LET table_name == required_tables[i]
             missing_columns == FullSchema[table_name] \ schema[table_name]
         IN IF schema[table_name] = {}
            THEN [exc |-> "RuntimeError", open |-> 1,
                  val |-> [table |-> table_name, exists |-> FALSE, missing |-> {}]]
            ELSE IF missing_columns # {}
            THEN [exc |-> "RuntimeError", open |-> 1,
                  val |-> [table |-> table_name, exists |-> TRUE,
                           missing |-> missing_columns]]
            ELSE ValidateFrom(schema, i + 1)

\* read_fails: the PRAGMA raises sqlite3.Error (the database is locked)
validate_schema(database, read_fails) ==
    IF read_fails
    THEN [exc |-> "RuntimeError", open |-> 1,
          val |-> [table |-> "none", exists |-> TRUE, missing |-> {}]]
    ELSE ValidateFrom(database.schema, 1)

\* The database files a consumer may be pointed at: as init_db leaves it, an
\* empty file, one without process_snapshot, one of an older layout.
Schemas ==
    {FullSchema,
     [system_snapshot |-> {}, process_snapshot |-> {}],
     [FullSchema EXCEPT !.process_snapshot = {}],
     [FullSchema EXCEPT !.system_snapshot = @ \ {"mem_compressed_mb"}]}

\* the columns each query reads
QueryReads ==
    [fetch_latest_snapshot |-> [table |-> "system_snapshot", cols |-> SystemColumns],
     fetch_system_snapshots |-> [table |-> "system_snapshot", cols |-> SnapshotsColumns],
     fetch_top_processes |->
        [table |-> "process_snapshot",
         cols |-> {"timestamp", "process_name", "pid", "rss_mb", "is_foreground"}]]

\* why the query raises on this database, if it does: the lock held by a
\* writer outlasts the wait ("locked"), or a table or column is not there
QueryError(database, fn) ==
    IF ~(QueryReads[fn].cols \subseteq database.schema[QueryReads[fn].table])
    THEN "no_such_table_or_column"
    ELSE IF database.locked THEN "locked"
    ELSE "none"

\* the order of the three queries in dashboard.main and build_advisor_summary
NextQuery ==
    [fetch_latest_snapshot |-> "fetch_system_snapshots",
     fetch_system_snapshots |-> "fetch_top_processes",
     fetch_top_processes |-> "done"]

NewRun(app, first) ==
    [app |-> app, pc |-> first, in_summary |-> app = "advisor", validated |-> FALSE,
     queries |-> 0, last |-> [fn |-> "none", outcome |-> "none", tries |-> 0]]

ConsumerInit ==
    /\ now = 60
    /\ system_table = <<>>
    /\ process_table = <<>>
    /\ call = NoCall
    /\ ret = Pending
    /\ LoopOff
    /\ \E schema \in Schemas : db = [NoDb EXCEPT !.schema = schema]
    /\ reader = NoReader

\* streamlit runs dashboard.main; the advisor's main builds the summary
StartRun ==
    /\ reader = NoReader
    /\ \/ reader' = NewRun("dashboard", "validate_schema")
       \/ reader' = NewRun("advisor", "fetch_latest_snapshot")
    /\ UNCHANGED <<now, system_table, process_table, call, ret, db, LoopVars>>

\* dashboard.main, lines 30-34
RunValidateSchema ==
    /\ reader # NoReader /\ reader.pc = "validate_schema"
    /\ LET r == validate_schema(db, db.locked)
       IN /\ call' = [fn |-> "validate_schema"]
          /\ ret' = [exc |-> r.exc, val |-> r.val]
          /\ db' = [db EXCEPT !.open = @ + r.open]
          /\ reader' = [reader EXCEPT !.validated = (r.exc = "none"),
                           !.pc = IF r.exc = "none" THEN "fetch_latest_snapshot"
                                  ELSE "done"]
    /\ UNCHANGED <<now, system_table, process_table, LoopVars>>

\* what the query fn may return or raise on the tables as they stand
QueryResults(fn, read_fails) ==
    IF fn = "fetch_latest_snapshot"
    THEN fetch_latest_snapshot(system_table, read_fails)
    ELSE IF fn = "fetch_system_snapshots"
    THEN {fetch_system_snapshots(system_table, MaxWindow, now, read_fails)}
    ELSE {fetch_top_processes(process_table, MaxWindow, MaxLimit, now, read_fails)}

\* One of the three queries, called from dashboard.main (lines 51-55, 77-81,
\* 116-120: an error is shown and the run ends, as it does on no data) or
\* from build_advisor_summary (lines 34-46, 49-68, 71-85: except
\* RuntimeError: pass).  A query that raises leaves its connection open.
RunQuery ==
    /\ reader # NoReader /\ reader.pc \in DOMAIN NextQuery
    /\ LET fn == reader.pc
           error == QueryError(db, fn)
       IN \E r \in QueryResults(fn, error # "none") :
             /\ call' = [fn |-> fn]
             /\ ret' = r
             /\ db' = [db EXCEPT !.open = @ + (IF Ok(r) THEN 0 ELSE 1)]
             /\ reader' =
                  [reader EXCEPT
                     !.queries = @ + 1,
                     !.last = [fn |-> fn,
                               outcome |-> IF Ok(r) THEN "ok" ELSE error,
                               tries |-> IF reader.last.fn = fn
                                            /\ reader.last.outcome = "locked"
                                         THEN reader.last.tries + 1 ELSE 1],
                     !.pc = IF reader.in_summary THEN NextQuery[fn]
                            ELSE IF ~Ok(r) THEN "done"
                            ELSE IF r.val = (IF fn = "fetch_latest_snapshot"
                                             THEN NoData ELSE <<>>) THEN "done"
                            ELSE IF fn = "fetch_top_processes" THEN "button"
                            ELSE NextQuery[fn]]
    /\ UNCHANGED <<now, system_table, process_table, LoopVars>>

\* dashboard.main, lines 151-156: "Get recommendations" is pressed, which
\* builds the advisor summary, or it is not
Button ==
    /\ reader # NoReader /\ reader.pc = "button"
    /\ \/ reader' = [reader EXCEPT !.pc = "fetch_latest_snapshot", !.in_summary = TRUE]
       \/ reader' = [reader EXCEPT !.pc = "done"]
    /\ UNCHANGED <<now, system_table, process_table, call, ret, db, LoopVars>>

\* the run is over; connections it left open are finalised with its objects
EndRun ==
    /\ reader # NoReader /\ reader.pc = "done"
    /\ reader' = NoReader
    /\ db' = [db EXCEPT !.open = 0]
    /\ UNCHANGED <<now, system_table, process_table, call, ret, LoopVars>>

\* the sampling loop, in its own process, is committing an insert: readers
\* are locked out until it is done
WriterLocks ==
    /\ db.schema = FullSchema /\ ~db.locked
    /\ db' = [db EXCEPT !.locked = TRUE]
    /\ UNCHANGED <<now, system_table, process_table, call, ret, reader, LoopVars>>

WriterCommits ==
    /\ db.locked
    /\ db' = [db EXCEPT !.locked = FALSE]
    /\ \/ /\ Len(system_table) < MaxSystemRows
          /\ system_table' =
                insert_system_snapshot(system_table, SnapshotAt(now, FALSE), "no").table
          /\ UNCHANGED process_table
       \/ /\ Len(process_table) < MaxProcessRows
          /\ process_table' =
                insert_process_snapshots(process_table,
                                         <<ProcessRow(now, "X", 1, 10, 1)>>, 0).table
          /\ UNCHANGED system_table
       \/ UNCHANGED <<system_table, process_table>>
    /\ UNCHANGED <<now, call, ret, reader, LoopVars>>

ConsumerNext ==
    \/ StartRun
    \/ RunValidateSchema
    \/ RunQuery
    \/ Button
    \/ EndRun
    \/ WriterLocks
    \/ WriterCommits

ConsumerSpec == ConsumerInit /\ [][ConsumerNext]_vars

(***************************************************************************)
(* Properties of the consumers (under ConsumerSpec)                        *)
(***************************************************************************)
\* C14: a consumer makes no query in a run before validate_schema has
\* succeeded in that run; on a database that lacks a required table or
\* column validate_schema raises and no query is made.
C14_ValidatedBeforeAnyQuery ==
    /\ (reader # NoReader /\ reader.queries > 0) => reader.validated
    /\ (reader # NoReader /\ db.schema # FullSchema) => reader.queries = 0
    /\ (call.fn = "validate_schema" /\ db.schema # FullSchema) => ret.exc = "RuntimeError"

\* C15: a consumer that has left behind a query which found the database
\* locked had called it more than once.
C15_LockedQueryRetried ==
    (reader # NoReader /\ reader.last.outcome = "locked" /\ reader.pc # reader.last.fn)
        => reader.last.tries > 1

\* C18: no call leaves a connection open behind it.
C18_NoConnectionLeftOpen == db.open = 0

(***************************************************************************)
(* StopSpec: the sampling loop and a stop signal                           *)
(***************************************************************************)
\* SIGINT or SIGTERM reaches the process while the loop runs.  No handler
\* is installed and KeyboardInterrupt is not an Exception: the process ends
\* where it stands (a transaction in flight is rolled back).
Stop ==
    /\ pc \notin {"init_db", "exited", "stopped"}
    /\ pc' = "stopped"
    /\ signal' = pc
    /\ UNCHANGED <<now, system_table, process_table, call, ret, system_snapshot,
                   frontmost_app, process_snapshots, cycle, db, reader>>

StopSpec == Init /\ [][Next \/ Stop]_vars

\* C16: a stop ends the process only between cycles (during the sleep, or
\* before the first statement of a cycle), never after a cycle has stored
\* its system snapshot and before its process stage is over.
C16_StopOnlyBetweenCycles ==
    signal # "none" =>
        /\ signal \in {"sleep", "get_system_metrics"}
        /\ ~(cycle.sys_rows = 1 /\ ~cycle.enumerated)

(***************************************************************************)
(* Order of the two inserts in a cycle (under Spec)                        *)
(***************************************************************************)
ProcessStage == {"get_frontmost_app_name", "get_process_metrics", "insert_process_snapshots"}

\* C17: the system row of a cycle is committed before the frontmost probe
\* and the enumeration begin; a cycle adds at most one system row, then at
\* most TOP_N_PROCESSES process rows in a transaction of its own, and a
\* failure in the process stage leaves the system row stored and no process
\* row.
C17_SystemRowBeforeProcessStage ==
    /\ [](/\ cycle.sys_rows \in {0, 1}
          /\ cycle.proc_rows <= TOP_N_PROCESSES
          /\ cycle.proc_rows > 0 => cycle.sys_rows = 1
          /\ pc \in ProcessStage =>
                /\ cycle.sys_rows = 1 /\ cycle.proc_rows = 0
                /\ Project(system_table[Len(system_table)], SystemColumns) = system_snapshot
          /\ cycle.at \in ProcessStage => cycle.sys_rows = 1 /\ cycle.proc_rows = 0)
    /\ [][/\ system_table' # system_table =>
                /\ pc = "insert_system_snapshot" /\ cycle.sys_rows = 0
                /\ Len(system_table') = Len(system_table) + 1
                /\ process_table' = process_table
          /\ process_table' # process_table =>
                /\ pc = "insert_process_snapshots" /\ pc' = "report"
                /\ cycle.sys_rows = 1 /\ cycle.proc_rows = 0
                /\ Len(process_table') - Len(process_table) \in 1..TOP_N_PROCESSES
                /\ system_table' = system_table
          /\ pc \in ProcessStage /\ pc' = "except" =>
                /\ process_table' = process_table
                /\ system_table' = system_table]_vars

\* C17 witness: the write of the process rows failed; the cycle's system
\* row is stored and the cycle has stored no process row.
C17_Witness ==
    /\ pc = "except"
    /\ cycle.at = "insert_process_snapshots"
    /\ cycle.sys_rows = 1 /\ cycle.proc_rows = 0
    /\ system_table # <<>>
    /\ system_table[Len(system_table)].timestamp = system_snapshot.timestamp
    /\ process_table = <<>>

====
